---- MODULE Spec2Model ----
(***************************************************************************)
(* Verification model of the pme-poc client: the geocoding facade          *)
(* (GeocodeServiceManager) with its two providers, the Google Maps script  *)
(* load guard of GooglePlacesProvider, the weather facade                  *)
(* (WeatherService.getProcessedWeatherData, estimateSolarRadiation), and   *)
(* the actions and unit conversions of PenmanMonteithView.                 *)
(*                                                                         *)
(* JavaScript is single threaded: every action below is one run-to-        *)
(* completion step, from the resumption of a callback or an await to the   *)
(* next await.  Numbers are fixed-point integers, Scale units for 1.0.     *)
(***************************************************************************)
EXTENDS Integers, Sequences, FiniteSets, TLC

\* ---------------------------------------------------------------- bounds
\* Number of facade / provider calls that may overlap.
MaxCalls == 2

Calls == 1..MaxCalls

\* Longest list of forecast periods an upstream answer carries.
MaxPeriods == 3

\* Longest list of suggestions the autocomplete API answers with.
MaxSuggestions == 2

\* The arrays over S of length at most n.
Seqs(S, n) == UNION { [1..k -> S] : k \in 0..n }

\* Fixed-point unit: Scale stands for 1.0.
Scale == 1000

\* ------------------------------------------------------------- variables
VARIABLES
  apiKey,             \* import.meta.env.VITE_GOOGLE_MAPS_API_KEY: "", "demo" or "real"
  isLoaded,           \* GooglePlacesProvider.isLoaded
  loadingPromise,     \* GooglePlacesProvider.loadingPromise: "null", "pending", "resolved", "rejected"
  placesPresent,      \* window.google?.maps?.places is defined
  scriptCount,        \* script elements appended to document.head
  loadsStarted,       \* invocations of loadGoogleMapsApi
  callbackRegistered, \* window[callbackName] is defined
  scriptState,        \* "none", "loading", "called", "errored"
  readyTimer,         \* the 100 ms setTimeout of the callback is pending
  timeoutTimer,       \* the 10 s setTimeout is pending
  calls,              \* the calls in progress, one record per call slot
  wpc,                \* getProcessedWeatherData: "idle", "point", "forecast", "grid", "done", "failed"
  wrequests,          \* the upstream requests the current call has issued, in order
  pointResp,          \* the answer to the point request, NoResponse until it arrives
  forecastResp,       \* the answer to the forecast request
  gridResp,           \* the answer to the gridpoint request
  wresult,            \* the ProcessedWeatherData returned, NoResult until then
  werror,             \* the message of the Error thrown to the caller, <<>> if none
  locationLat,        \* view: locationLat, whole degrees, 0 until a location is set
  locationLon,        \* view: locationLon
  searchQuery,        \* view: searchQuery (v-model of the search input)
  isSearching,        \* view: isSearching
  loadingLocation,    \* view: loadingLocation
  loadingWeather,     \* view: loadingWeather
  locationError,      \* view: locationError, "" if none
  weatherError,       \* view: weatherError, "" if none
  weatherData,        \* view: weatherData, NoData for null
  hasGeolocation,     \* navigator.geolocation is defined
  weatherFetches,     \* fetchWeatherData calls awaiting the weather service, in start order
  lookups,            \* view actions awaiting a geocoding or geolocation answer, in start order
  lastStarted,        \* history: the location of the weather request started last
  lastEvent,          \* history: the last step of the view, [action, outcome]
  searchDebounceTimer,\* view: the timer searchDebounceTimer names: "null", "pending", "stale" (fired or cleared)
  debounceTimers,     \* the 300 ms timers of handleSearchInput that are pending
  showSuggestions,    \* view: showSuggestions
  searchSuggestions,  \* view: searchSuggestions
  form,               \* view: the units and the fields of the calculator, one record
  unitToggles,        \* history: the number of unit toggles so far
  fnApplied,          \* the functions applied to fnInput so far, in order
  fnInput,            \* the arguments of a function of the view or of the service
  fnOutput            \* what the function returned

loadVars == <<isLoaded, loadingPromise, placesPresent, scriptCount, loadsStarted,
              callbackRegistered, scriptState, readyTimer, timeoutTimer>>
geoVars == <<apiKey, isLoaded, loadingPromise, placesPresent, scriptCount, loadsStarted,
             callbackRegistered, scriptState, readyTimer, timeoutTimer, calls>>

wVars == <<wpc, wrequests, pointResp, forecastResp, gridResp, wresult, werror>>

viewVars == <<locationLat, locationLon, searchQuery, isSearching, loadingLocation,
              loadingWeather, locationError, weatherError, weatherData, hasGeolocation,
              weatherFetches, lookups, lastStarted, lastEvent,
              searchDebounceTimer, debounceTimers, showSuggestions, searchSuggestions, form,
              unitToggles>>

formVars == <<form, unitToggles>>
suggestionVars == <<searchDebounceTimer, debounceTimers, showSuggestions, searchSuggestions>>

fnVars == <<fnApplied, fnInput, fnOutput>>

\* What the actions of one component leave alone.
otherThanGeo == <<wVars, viewVars, fnVars>>
otherThanWeather == <<geoVars, viewVars, fnVars>>
otherThanView == <<geoVars, wVars, fnVars>>

\* ------------------------------------------------------- geocoding facade
\* The two provider classes with their `priority` fields.
ProviderNames == {"Google", "OSM"}

priority(p) == IF p = "Google" THEN 10 ELSE 5

\* isAvailable() of either provider.
isAvailable(p) ==
  IF p = "Google" THEN apiKey # "" /\ apiKey # "demo" ELSE TRUE

\* Insertion of x into a sequence sorted by the comparator (a, b) => b.priority - a.priority.
RECURSIVE InsertByPriority(_, _)
InsertByPriority(x, s) ==
  IF s = <<>> THEN <<x>>
  ELSE IF priority(x) > priority(Head(s)) THEN <<x>> \o s
  ELSE <<Head(s)>> \o InsertByPriority(x, Tail(s))

RECURSIVE SortByPriority(_)
SortByPriority(s) ==
  IF s = <<>> THEN <<>> ELSE InsertByPriority(Head(s), SortByPriority(Tail(s)))

\* Mutant: the constructor sorts ascending (a.priority - b.priority).
providers_Ascending == <<"OSM", "Google">>

\* GeocodeServiceManager.providers after the constructor's sort.
providers == SortByPriority(<<"Google", "OSM">>)

\* Array.prototype.find with the predicate p => p.isAvailable(); "none" is undefined.
RECURSIVE FindAvailable(_)
FindAvailable(s) ==
  IF s = <<>> THEN "none"
  ELSE IF isAvailable(Head(s)) THEN Head(s) ELSE FindAvailable(Tail(s))

\* getAvailableProvider(): this.providers.find(p => p.isAvailable())
getAvailableProvider == FindAvailable(providers)

\* Mutant: the catch block gives up instead of looking for a fallback.
remainingProviders_None(provider) == <<>>

\* Mutant: the filter forgets to exclude the provider that just failed.
remainingProviders_KeepFailed(provider) ==
  SelectSeq(providers, LAMBDA p : isAvailable(p))

\* Mutant: the filter forgets the availability check.
remainingProviders_IgnoreAvailability(provider) ==
  SelectSeq(providers, LAMBDA p : p # provider)

\* this.providers.filter(p => p !== provider && p.isAvailable())
remainingProviders(provider) ==
  SelectSeq(providers, LAMBDA p : p # provider /\ isAvailable(p))

\* A call slot: op is the entry point, tried the log of provider invocations
\* of this call, outcome what the call returned or threw and which provider
\* produced it.
IdleCall ==
  [op |-> "none", pc |-> "idle", short |-> FALSE, limit |-> 0, tried |-> <<>>,
   outcome |-> "none", from |-> "none", results |-> <<>>]

Attempt(p) == [provider |-> p, status |-> "pending"]

SetLastStatus(tried, st) ==
  [tried EXCEPT ![Len(tried)] = [@ EXCEPT !.status = st]]

Finish(rec, p, kind) ==
  [rec EXCEPT !.pc = "done", !.outcome = kind, !.from = p]

UpdateCall(c, rec) == calls' = [calls EXCEPT ![c] = rec]

\* --------------------------------------------- Google Maps script loading
\* resolve() / reject() of the promise built in loadGoogleMapsApi: a promise
\* settles once, later calls have no effect.
Settle(state) ==
  loadingPromise' = IF loadingPromise = "pending" THEN state ELSE loadingPromise

\* loadGoogleMapsApi() up to its return: throws without a key, returns at once
\* when the places library is already there, otherwise registers the callback,
\* arms the 10 s timeout and appends the script element.
loadGoogleMapsApi ==
  /\ loadsStarted' = loadsStarted + 1
  /\ IF apiKey = "" \/ apiKey = "demo" THEN
       /\ loadingPromise' = "rejected"
       /\ UNCHANGED <<isLoaded, placesPresent, scriptCount, callbackRegistered,
                      scriptState, readyTimer, timeoutTimer>>
     ELSE IF placesPresent THEN
       /\ isLoaded' = TRUE
       /\ loadingPromise' = "resolved"
       /\ UNCHANGED <<placesPresent, scriptCount, callbackRegistered,
                      scriptState, readyTimer, timeoutTimer>>
     ELSE
       /\ loadingPromise' = "pending"
       /\ callbackRegistered' = TRUE
       /\ scriptState' = "loading"
       /\ timeoutTimer' = TRUE
       /\ scriptCount' = scriptCount + 1
       /\ UNCHANGED <<isLoaded, placesPresent, readyTimer>>

\* Mutant: a failed load is forgotten, so the next caller loads again.
ensureApiLoaded_RetryAfterFailure(c, rec) ==
  IF isLoaded THEN
    /\ UpdateCall(c, [rec EXCEPT !.pc = "gApi"])
    /\ UNCHANGED loadVars
  ELSE IF loadingPromise \in {"pending", "resolved"} THEN
    /\ UpdateCall(c, [rec EXCEPT !.pc = "gLoad"])
    /\ UNCHANGED loadVars
  ELSE
    /\ loadGoogleMapsApi
    /\ UpdateCall(c, [rec EXCEPT !.pc = "gLoad"])

\* ensureApiLoaded() as run by call c, whose record becomes rec: "gApi" when
\* the provider goes on to its API request, "gLoad" when it awaits
\* loadingPromise.
ensureApiLoaded(c, rec) ==
  IF isLoaded THEN
    /\ UpdateCall(c, [rec EXCEPT !.pc = "gApi"])
    /\ UNCHANGED loadVars
  ELSE IF loadingPromise # "null" THEN
    /\ UpdateCall(c, [rec EXCEPT !.pc = "gLoad"])
    /\ UNCHANGED loadVars
  ELSE
    /\ loadGoogleMapsApi
    /\ UpdateCall(c, [rec EXCEPT !.pc = "gLoad"])

\* The script has loaded and calls window[callbackName]: the callback arms the
\* 100 ms timer.  Whether the places library came with it is up to the script.
ScriptCallback(places) ==
  /\ scriptState = "loading"
  /\ callbackRegistered
  /\ scriptState' = "called"
  /\ readyTimer' = TRUE
  /\ placesPresent' = places
  /\ UNCHANGED <<apiKey, isLoaded, loadingPromise, scriptCount, loadsStarted,
                 callbackRegistered, timeoutTimer, calls>>
  /\ UNCHANGED otherThanGeo

\* The 100 ms timer of the callback.
ReadyTimerFires ==
  /\ readyTimer
  /\ readyTimer' = FALSE
  /\ callbackRegistered' = FALSE
  /\ IF placesPresent
       THEN isLoaded' = TRUE /\ Settle("resolved")
       ELSE isLoaded' = isLoaded /\ Settle("rejected")
  /\ UNCHANGED <<apiKey, placesPresent, scriptCount, loadsStarted,
                 scriptState, timeoutTimer, calls>>
  /\ UNCHANGED otherThanGeo

\* script.onerror
ScriptError ==
  /\ scriptState = "loading"
  /\ scriptState' = "errored"
  /\ callbackRegistered' = FALSE
  /\ Settle("rejected")
  /\ UNCHANGED <<apiKey, isLoaded, placesPresent, scriptCount, loadsStarted,
                 readyTimer, timeoutTimer, calls>>
  /\ UNCHANGED otherThanGeo

\* Mutant: the 10 s timer rejects nothing.
TimeoutFires_NoReject ==
  /\ timeoutTimer
  /\ timeoutTimer' = FALSE
  /\ UNCHANGED <<apiKey, isLoaded, loadingPromise, placesPresent, scriptCount, loadsStarted,
                 callbackRegistered, scriptState, readyTimer, calls>>
  /\ UNCHANGED otherThanGeo

\* The 10 s timer.
TimeoutFires ==
  /\ timeoutTimer
  /\ timeoutTimer' = FALSE
  /\ IF ~isLoaded
       THEN callbackRegistered' = FALSE /\ Settle("rejected")
       ELSE UNCHANGED <<callbackRegistered, loadingPromise>>
  /\ UNCHANGED <<apiKey, isLoaded, placesPresent, scriptCount, loadsStarted,
                 scriptState, readyTimer, calls>>
  /\ UNCHANGED otherThanGeo

\* ------------------------------------------------------ provider dispatch
\* provider.searchLocations / provider.reverseGeocode up to the first await.
\* Both searchLocations return [] for a query shorter than 2 characters
\* before doing anything else.
Invoke(c, rec, p) ==
  IF rec.op = "search" /\ rec.short THEN
    /\ UpdateCall(c, Finish([rec EXCEPT !.tried = SetLastStatus(@, "ok")], p, "result"))
    /\ UNCHANGED loadVars
  ELSE IF p = "Google" THEN
    ensureApiLoaded(c, rec)
  ELSE
    /\ UpdateCall(c, [rec EXCEPT !.pc = "osm"])
    /\ UNCHANGED loadVars

\* Provider p has thrown inside call c (rec already records the throw).
\* getCoordinatesForAddress catches and returns null.  The facade's catch
\* block rethrows when no other provider is available and otherwise calls
\* remainingProviders[0]; an error thrown by that call leaves the facade.
ProviderThrew(c, rec, p) ==
  IF rec.op = "coords" THEN
    /\ UpdateCall(c, Finish(rec, p, "null"))
    /\ UNCHANGED loadVars
  ELSE IF Len(rec.tried) >= 2 THEN
    /\ UpdateCall(c, Finish(rec, p, "error"))
    /\ UNCHANGED loadVars
  ELSE
    LET remaining == remainingProviders(p) IN
      IF Len(remaining) = 0 THEN
        /\ UpdateCall(c, Finish(rec, p, "error"))
        /\ UNCHANGED loadVars
      ELSE
        Invoke(c, [rec EXCEPT !.tried = Append(@, Attempt(remaining[1]))], remaining[1])

\* A facade method from its entry to the first await: getAvailableProvider()
\* (which throws when it finds none), then the provider's method.
FacadeEntry(c, op, short, limit) ==
  LET provider == getAvailableProvider
      rec == [IdleCall EXCEPT !.op = op, !.short = short, !.limit = limit]
  IN IF provider = "none" THEN
       /\ UpdateCall(c, Finish(rec, "none", "error"))
       /\ UNCHANGED loadVars
     ELSE Invoke(c, [rec EXCEPT !.tried = <<Attempt(provider)>>], provider)

\* GeocodeServiceManager.searchLocations(query, limit); short: query.trim().length < 2
searchLocations(c, short) ==
  /\ calls[c].pc \in {"idle", "done"}
  /\ \E limit \in 1..MaxSuggestions : FacadeEntry(c, "search", short, limit)
  /\ UNCHANGED <<apiKey, otherThanGeo>>

\* GeocodeServiceManager.reverseGeocode(latitude, longitude)
reverseGeocode(c) ==
  /\ calls[c].pc \in {"idle", "done"}
  /\ FacadeEntry(c, "reverse", FALSE, 0)
  /\ UNCHANGED <<apiKey, otherThanGeo>>

\* GooglePlacesProvider.getCoordinatesForAddress, which the view calls on the
\* provider object itself, whatever isAvailable() says.
getCoordinatesForAddress(c) ==
  /\ calls[c].pc \in {"idle", "done"}
  /\ ensureApiLoaded(c, [IdleCall EXCEPT !.op = "coords", !.tried = <<Attempt("Google")>>])
  /\ UNCHANGED <<apiKey, otherThanGeo>>

\* `await this.ensureApiLoaded()` resumes in call c once loadingPromise has
\* settled (for a promise that was already settled, in the next microtask).
LoadSettled(c) ==
  /\ calls[c].pc = "gLoad"
  /\ loadingPromise \in {"resolved", "rejected"}
  /\ IF loadingPromise = "resolved" THEN
       /\ UpdateCall(c, [calls[c] EXCEPT !.pc = "gApi"])
       /\ UNCHANGED loadVars
     ELSE
       ProviderThrew(c, [calls[c] EXCEPT !.tried = SetLastStatus(@, "threw")], "Google")
  /\ UNCHANGED <<apiKey, otherThanGeo>>

\* suggestion.placePrediction of the AutocompleteSuggestion API (text.text
\* may be missing, "" here) and a prediction of the AutocompleteService.
PlacePredictions ==
  { [text |-> "Denver, CO, USA", placeId |-> "ChIJzxcfI6qAa4cR1jaKJ_j0jhE"],
    [text |-> "", placeId |-> "ChIJ06-NJ06Na4cRWIAboHw7Ocg"] }

\* What the autocomplete request of a search can answer: suggestions of the
\* new API or, asked when that API is missing or has none, the status and the
\* predictions of the AutocompleteService.
AutocompleteAnswers ==
  { [api |-> "new", ok |-> TRUE, items |-> items] :
      items \in { s \in Seqs(PlacePredictions, MaxSuggestions) : Len(s) > 0 } }
  \cup { [api |-> "legacy", ok |-> ok, items |-> items] :
           ok \in BOOLEAN,
           items \in Seqs({ p \in PlacePredictions : p.text # "" }, MaxSuggestions) }

\* Mutant: the whole array.
slice_Whole(s, limit) == s

\* Array.prototype.slice(0, limit), limit >= 0
slice(s, limit) == SubSeq(s, 1, IF Len(s) < limit THEN Len(s) ELSE limit)

\* createBasicResultFromSuggestion for the suggestions that have a text, and
\* the map of searchWithAutocompleteService.
RECURSIVE BasicResults(_)
BasicResults(items) ==
  IF items = <<>> THEN <<>>
  ELSE IF Head(items).text # "" THEN
    <<[latitude |-> 0, longitude |-> 0, formattedAddress |-> Head(items).text,
       placeId |-> Head(items).placeId]>> \o BasicResults(Tail(items))
  ELSE BasicResults(Tail(items))

\* What GooglePlacesProvider.searchLocations returns for an answer.
GoogleResults(answer, limit) ==
  IF answer.ok THEN BasicResults(slice(answer.items, limit)) ELSE <<>>

\* The Google API request of call c (autocomplete or geocoder) answers.
GoogleResponse(c, ok) ==
  /\ calls[c].pc = "gApi"
  /\ IF ok THEN
       /\ \E answer \in AutocompleteAnswers :
            UpdateCall(c, Finish([calls[c] EXCEPT
                                    !.tried = SetLastStatus(@, "ok"),
                                    !.results = IF calls[c].op = "search"
                                                  THEN GoogleResults(answer, calls[c].limit)
                                                  ELSE <<>>],
                                 "Google",
                                 IF calls[c].op = "coords" THEN "coords" ELSE "result"))
       /\ UNCHANGED loadVars
     ELSE
       ProviderThrew(c, [calls[c] EXCEPT !.tried = SetLastStatus(@, "threw")], "Google")
  /\ UNCHANGED <<apiKey, otherThanGeo>>

\* The Nominatim request of call c answers.
OsmResponse(c, ok) ==
  /\ calls[c].pc = "osm"
  /\ IF ok THEN
       /\ UpdateCall(c, Finish([calls[c] EXCEPT !.tried = SetLastStatus(@, "ok")], "OSM", "result"))
       /\ UNCHANGED loadVars
     ELSE
       ProviderThrew(c, [calls[c] EXCEPT !.tried = SetLastStatus(@, "threw")], "OSM")
  /\ UNCHANGED <<apiKey, otherThanGeo>>

GeoInit ==
  /\ apiKey \in {"", "demo", "real"}
  /\ isLoaded = FALSE
  /\ loadingPromise = "null"
  /\ placesPresent \in BOOLEAN
  /\ scriptCount = 0
  /\ loadsStarted = 0
  /\ callbackRegistered = FALSE
  /\ scriptState = "none"
  /\ readyTimer = FALSE
  /\ timeoutTimer = FALSE
  /\ calls = [c \in Calls |-> IdleCall]

Next ==
  \/ \E c \in Calls, short \in BOOLEAN : searchLocations(c, short)
  \/ \E c \in Calls : reverseGeocode(c)
  \/ \E c \in Calls : getCoordinatesForAddress(c)
  \/ \E c \in Calls : LoadSettled(c)
  \/ \E c \in Calls, ok \in BOOLEAN : GoogleResponse(c, ok)
  \/ \E c \in Calls, ok \in BOOLEAN : OsmResponse(c, ok)
  \/ \E places \in BOOLEAN : ScriptCallback(places)
  \/ ReadyTimerFires
  \/ ScriptError
  \/ TimeoutFires

\* ---------------------------------------------------------- weather facade
\* JavaScript null / undefined for a numeric field.
Null == -999999

\* Math.max() and Math.min() of no arguments.
NegInfinity == -1000000000

PosInfinity == 1000000000

NoResponse == [kind |-> "none"]

NoResult == [kind |-> "none"]

\* private fahrenheitToCelsius(fahrenheit): (fahrenheit - 32) * 5/9
fahrenheitToCelsius(fahrenheit) == ((fahrenheit - 32 * Scale) * 5) \div 9

\* private convertWindSpeedFromGrid(value, uom)
convertWindSpeedFromGrid(value, uom) ==
  IF value = Null THEN Null
  ELSE IF uom = "wmoUnit:km_h-1" THEN (value * 10) \div 36
  ELSE IF uom = "wmoUnit:mi_h-1" THEN (value * 44704) \div 100000
  ELSE IF uom = "wmoUnit:m_s-1" THEN value
  ELSE value

\* Math.max(...xs) and Math.min(...xs)
MathMax(xs) ==
  IF Len(xs) = 0 THEN NegInfinity
  ELSE CHOOSE m \in {xs[i] : i \in 1..Len(xs)} : \A i \in 1..Len(xs) : xs[i] <= m

MathMin(xs) ==
  IF Len(xs) = 0 THEN PosInfinity
  ELSE CHOOSE m \in {xs[i] : i \in 1..Len(xs)} : \A i \in 1..Len(xs) : m <= xs[i]

\* periods.slice(0, 2)
Slice2(periods) == SubSeq(periods, 1, IF Len(periods) < 2 THEN Len(periods) ELSE 2)

\* JavaScript truthiness of a number-or-null value, as used by `x || d`.
Falsy(x) == x = Null \/ x = 0

OrDefault(x, d) == IF Falsy(x) THEN d ELSE x

\* What the axios response interceptor throws for a failed request: a plain
\* object { message, code }, not an Error.
Intercepted(failure) ==
  [isError |-> FALSE,
   message |-> IF failure.message = "" THEN "Weather service error" ELSE failure.message,
   code |-> IF failure.status = "" THEN "UNKNOWN" ELSE failure.status]

NewError(message) == [isError |-> TRUE, message |-> message, code |-> ""]

\* Mutant: the catch block of the station-based version of the service, which
\* reports everything that is not an Error as "Unknown error".
CatchMessage_StationVersion(error) ==
  IF error.isError
    THEN <<"Failed to get weather data: ", error.message>>
    ELSE <<"Failed to get weather data: ", "Unknown error">>

\* The catch block of getProcessedWeatherData: the message of the Error it throws.
CatchMessage(error) ==
  IF error.isError THEN
    IF error.message \in {"CORS", "Network Error", "ERR_NETWORK"}
      THEN <<"Failed to get weather data: ", "CORS error - weather.gov API may not be accessible from browser. This API typically requires server-side access.">>
      ELSE <<"Failed to get weather data: ", error.message>>
  ELSE <<"Failed to get weather data: ", error.message, " (Code: ", error.code, ")">>

\* ------------------------------------------------------- upstream answers
HttpFailures ==
  { [kind |-> "httpError", message |-> "Request failed with status code 404", status |-> "404"],
    [kind |-> "httpError", message |-> "Network Error", status |-> ""] }

\* /points/{lat},{lon}: no properties at all, or properties whose grid fields
\* may be missing (Null, "") and whose grid coordinates may be 0.
PointResponses ==
  HttpFailures
  \cup { [kind |-> "ok", hasProperties |-> FALSE] }
  \cup [kind : {"ok"}, hasProperties : {TRUE}, gridId : {"", "TOP"},
        gridX : {Null, 0, 31}, gridY : {Null, 80},
        forecast : {"", "forecastA", "forecastB"}]

\* The forecast periods: temperature as upstream states it, in the unit named
\* by temperatureUnit, with the humidity and wind speed the period carries.
PeriodsOf(temps, unit, humidity, wind) ==
  [i \in 1..Len(temps) |->
     [temperature |-> temps[i], temperatureUnit |-> unit,
      relativeHumidity |-> humidity, windSpeedMph |-> wind]]

ForecastResponses ==
  HttpFailures
  \cup { [kind |-> "ok", hasPeriods |-> FALSE] }
  \cup { [kind |-> "ok", hasPeriods |-> TRUE, periods |-> PeriodsOf(temps, unit, humidity, wind)] :
           temps \in Seqs({54 * Scale, 72 * Scale}, MaxPeriods), unit \in {"F", "C"},
           humidity \in {Null, 80 * Scale}, wind \in {Null, 10 * Scale} }

\* A gridpoint time series: the property may be undefined, and its first
\* value may be null.
HumiditySeries ==
  { [defined |-> FALSE, values |-> <<>>, uom |-> ""] }
  \cup [defined : {TRUE}, values : {<<>>, <<Null>>, <<0>>, <<40 * Scale>>, <<40 * Scale, 60 * Scale>>},
        uom : {"wmoUnit:percent"}]


WindSeries ==
  { [defined |-> FALSE, values |-> <<>>, uom |-> ""] }
  \cup [defined : {TRUE}, values : {<<>>, <<Null>>, <<0>>, <<18 * Scale>>}, uom : {"wmoUnit:km_h-1", "wmoUnit:mi_h-1", "wmoUnit:m_s-1", "wmoUnit:kn"}]

GridResponses ==
  HttpFailures
  \cup { [kind |-> "ok", hasProperties |-> FALSE] }
  \cup [kind : {"ok"}, hasProperties : {TRUE},
        relativeHumidity : HumiditySeries, windSpeed : WindSeries]

\* ------------------------------------------------ getProcessedWeatherData
\* The call ends in its catch block.
Fail(error) ==
  /\ wpc' = "failed"
  /\ werror' = CatchMessage(error)
  /\ wresult' = NoResult

\* Mutant: the check of the point properties of the gridpoint-only version,
\* which does not look at the forecast URL.
InvalidGridData_NoForecastCheck(properties) ==
  Falsy(properties.gridX) \/ Falsy(properties.gridY) \/ properties.gridId = ""

\* !gridX || !gridY || !gridId || !forecastUrl
InvalidGridData(properties) ==
  Falsy(properties.gridX) \/ Falsy(properties.gridY) \/ properties.gridId = ""
    \/ properties.forecast = ""

\* The call starts: getPointData(location) issues the point request.
getProcessedWeatherData ==
  /\ wpc \in {"idle", "done", "failed"}
  /\ wpc' = "point"
  /\ wrequests' = <<[kind |-> "point", url |-> "/points"]>>
  /\ pointResp' = NoResponse
  /\ forecastResp' = NoResponse
  /\ gridResp' = NoResponse
  /\ wresult' = NoResult
  /\ werror' = <<>>
  /\ UNCHANGED otherThanWeather

\* The point request answers.
PointResponse(resp) ==
  /\ wpc = "point"
  /\ pointResp' = resp
  /\ UNCHANGED <<forecastResp, gridResp, otherThanWeather>>
  /\ IF resp.kind = "httpError" THEN
       Fail(Intercepted(resp)) /\ UNCHANGED wrequests
     ELSE IF ~resp.hasProperties THEN
       Fail(NewError("No weather data available for the specified location"))
         /\ UNCHANGED wrequests
     ELSE IF InvalidGridData(resp) THEN
       Fail(NewError("Invalid grid data from weather service")) /\ UNCHANGED wrequests
     ELSE
       /\ wrequests' = Append(wrequests, [kind |-> "forecast", url |-> resp.forecast])
       /\ wpc' = "forecast"
       /\ UNCHANGED <<wresult, werror>>

\* The forecast request answers.  The temperatures of the first two periods
\* are computed when the gridpoint answer arrives (they depend on nothing else).
ForecastResponse(resp) ==
  /\ wpc = "forecast"
  /\ forecastResp' = resp
  /\ UNCHANGED <<pointResp, gridResp, otherThanWeather>>
  /\ IF resp.kind = "httpError" THEN
       Fail(Intercepted(resp)) /\ UNCHANGED wrequests
     ELSE IF ~resp.hasPeriods THEN
       Fail(NewError("No forecast data available")) /\ UNCHANGED wrequests
     ELSE
       /\ wrequests' = Append(wrequests, [kind |-> "gridpoint", url |-> "/gridpoints"])
       /\ wpc' = "grid"
       /\ UNCHANGED <<wresult, werror>>

\* const temperatures = todayPeriods.map(period => period.temperature)
Temperatures(periods) ==
  [i \in 1..Len(Slice2(periods)) |-> Slice2(periods)[i].temperature]

\* humidityData && humidityData.values && humidityData.values.length > 0
\*   ? humidityData.values[0].value : 50, then `relativeHumidity || 50`
ExtractHumidity(humidityData) ==
  OrDefault(IF humidityData.defined /\ Len(humidityData.values) > 0
              THEN humidityData.values[1] ELSE 50 * Scale,
            50 * Scale)

\* windData && windData.values && windData.values.length > 0
\*   ? this.convertWindSpeedFromGrid(windData.values[0].value, windData.uom) : 2,
\* then `windSpeedValue || 2`
ExtractWindSpeed(windData) ==
  OrDefault(IF windData.defined /\ Len(windData.values) > 0
              THEN convertWindSpeedFromGrid(windData.values[1], windData.uom) ELSE 2 * Scale,
            2 * Scale)

\* The ProcessedWeatherData built from the three answers.
ProcessedData(point, forecast, grid) ==
  [kind |-> "data",
   maxTemperature |-> MathMax(Temperatures(forecast.periods)),
   minTemperature |-> MathMin(Temperatures(forecast.periods)),
   relativeHumidity |-> ExtractHumidity(grid.relativeHumidity),
   windSpeed |-> ExtractWindSpeed(grid.windSpeed),
   stationId |-> point.gridId]

\* The gridpoint request answers.
GridResponse(resp) ==
  /\ wpc = "grid"
  /\ gridResp' = resp
  /\ UNCHANGED <<pointResp, forecastResp, wrequests, otherThanWeather>>
  /\ IF resp.kind = "httpError" THEN
       Fail(Intercepted(resp))
     ELSE IF ~resp.hasProperties THEN
       Fail(NewError("No current weather data available"))
     ELSE
       /\ wresult' = ProcessedData(pointResp, forecastResp, resp)
       /\ wpc' = "done"
       /\ UNCHANGED werror

WInit ==
  /\ wpc = "idle"
  /\ wrequests = <<>>
  /\ pointResp = NoResponse
  /\ forecastResp = NoResponse
  /\ gridResp = NoResponse
  /\ wresult = NoResult
  /\ werror = <<>>

NextWeather ==
  \/ getProcessedWeatherData
  \/ \E resp \in PointResponses : PointResponse(resp)
  \/ \E resp \in ForecastResponses : ForecastResponse(resp)
  \/ \E resp \in GridResponses : GridResponse(resp)


\* ---------------------------------------------------- unit conversions
\* The conversion functions of the view, on fixed-point numbers.  A division
\* rounds, as it does in floating point; Tolerance is the rounding error two
\* conversions in a row may leave, in units of 1/Scale.
Tolerance == 5

\* Longest chain of function applications followed from one input.
MaxApplied == 2

\* The inputs: the multiples of InputStep/Scale up to InputCount of them either
\* side of zero, and 100.
InputStep == 777

InputCount == 160


Abs(n) == IF n < 0 THEN -n ELSE n

\* Mutant: the factors of the inverse conversion.
celsiusToFahrenheit_InverseFactors(celsius) == (celsius * 5) \div 9 + 32 * Scale

\* (celsius * 9) / 5 + 32
celsiusToFahrenheit(celsius) == (celsius * 9) \div 5 + 32 * Scale

\* (a * n) / d rounded down, computed without leaving 32 bits: 3.28084 is
\* 82021/25000 and 2.237 is 2237/1000.
MulDiv(a, n, d) == (a \div d) * n + ((a % d) * n) \div d

\* meters * 3.28084
metersToFeet(meters) == MulDiv(meters, 82021, 25000)

\* Mutant: multiplies where the source divides.
feetToMeters_Multiplies(feet) == MulDiv(feet, 82021, 25000)

\* feet / 3.28084
feetToMeters(feet) == MulDiv(feet, 25000, 82021)

\* ms * 2.237
msToMph(ms) == MulDiv(ms, 2237, 1000)

\* mph / 2.237
mphToMs(mph) == MulDiv(mph, 1000, 2237)

\* temperatureUnit.value === 'F' ? celsiusToFahrenheit(tempC) : tempC
displayTemperature(tempC, temperatureUnit) ==
  IF temperatureUnit = "F" THEN celsiusToFahrenheit(tempC) ELSE tempC

\* Mutant: the input is taken for Celsius whatever the unit.
convertInputTemperature_NoConversion(inputValue, temperatureUnit) == inputValue

\* temperatureUnit.value === 'F' ? fahrenheitToCelsius(inputValue) : inputValue
convertInputTemperature(inputValue, temperatureUnit) ==
  IF temperatureUnit = "F" THEN fahrenheitToCelsius(inputValue) ELSE inputValue

\* The argument of the next application: the input, or the last result.
Argument == IF fnApplied = <<>> THEN fnInput.x ELSE fnOutput

\* A function is applied and returns value.
Returns(name, value) ==
  /\ Len(fnApplied) < MaxApplied
  /\ fnApplied' = Append(fnApplied, name)
  /\ fnOutput' = value
  /\ UNCHANGED <<fnInput, geoVars, wVars, viewVars>>

CallCelsiusToFahrenheit == Returns("celsiusToFahrenheit", celsiusToFahrenheit(Argument))

CallFahrenheitToCelsius == Returns("fahrenheitToCelsius", fahrenheitToCelsius(Argument))

CallMetersToFeet == Returns("metersToFeet", metersToFeet(Argument))

CallFeetToMeters == Returns("feetToMeters", feetToMeters(Argument))

CallMsToMph == Returns("msToMph", msToMph(Argument))

CallMphToMs == Returns("mphToMs", mphToMs(Argument))

CallDisplayTemperature ==
  Returns("displayTemperature", displayTemperature(Argument, fnInput.unit))

CallConvertInputTemperature ==
  Returns("convertInputTemperature", convertInputTemperature(Argument, fnInput.unit))

NextUnits ==
  \/ CallCelsiusToFahrenheit
  \/ CallFahrenheitToCelsius
  \/ CallMetersToFeet
  \/ CallFeetToMeters
  \/ CallMsToMph
  \/ CallMphToMs
  \/ CallDisplayTemperature
  \/ CallConvertInputTemperature

\* ------------------------------------------------ estimateSolarRadiation
\* Angles are in thousandths of a degree; sines, cosines, tangents, radians
\* and the radiation returned are in units of 1/TrigScale.
TrigScale == 10000

\* The NaN of IEEE arithmetic: what Math.acos returns outside [-1, 1], and
\* what every operation on it returns.
NaN == -777777

\* Math.sin at the whole degrees 0..90.
SinTable ==
  <<0, 175, 349, 523, 698, 872, 1045, 1219, 1392, 1564,
     1736, 1908, 2079, 2250, 2419, 2588, 2756, 2924, 3090, 3256,
     3420, 3584, 3746, 3907, 4067, 4226, 4384, 4540, 4695, 4848,
     5000, 5150, 5299, 5446, 5592, 5736, 5878, 6018, 6157, 6293,
     6428, 6561, 6691, 6820, 6947, 7071, 7193, 7314, 7431, 7547,
     7660, 7771, 7880, 7986, 8090, 8192, 8290, 8387, 8480, 8572,
     8660, 8746, 8829, 8910, 8988, 9063, 9135, 9205, 9272, 9336,
     9397, 9455, 9511, 9563, 9613, 9659, 9703, 9744, 9781, 9816,
     9848, 9877, 9903, 9925, 9945, 9962, 9976, 9986, 9994, 9998,
     10000>>

\* Math.sin of an angle of the first quadrant, between the whole degrees by
\* linear interpolation.
SinQuadrant(a) ==
  LET k == a \div 1000
      f == a % 1000
  IN IF k >= 90 THEN SinTable[91]
     ELSE SinTable[k + 1] + ((SinTable[k + 2] - SinTable[k + 1]) * f) \div 1000

\* Math.sin
Sin(a) ==
  LET r == a % 360000
  IN IF r <= 90000 THEN SinQuadrant(r)
     ELSE IF r <= 180000 THEN SinQuadrant(180000 - r)
     ELSE IF r <= 270000 THEN -SinQuadrant(r - 180000)
     ELSE -SinQuadrant(360000 - r)

\* Math.cos
Cos(a) == Sin(a + 90000)

\* Math.tan(Math.PI / 2) is not Infinity but about 1.6e16: a value large
\* enough to take any product with a non-zero tangent out of [-1, 1].
TanRightAngle == 1000000000

\* Math.tan, for the angles -90..90 degrees.
Tan(a) ==
  IF Cos(a) = 0 THEN (IF Sin(a) < 0 THEN -TanRightAngle ELSE TanRightAngle)
  ELSE (Sin(a) * TrigScale) \div Cos(a)

\* Math.acos, in thousandths of a degree: NaN outside [-1, 1].
Acos(x) ==
  IF x > TrigScale \/ x < -TrigScale THEN NaN
  ELSE LET ks == { k \in 0..179 : Cos(k * 1000) >= x /\ x >= Cos((k + 1) * 1000) }
           k == CHOOSE k \in ks : \A j \in ks : k <= j
           hi == Cos(k * 1000)
           lo == Cos((k + 1) * 1000)
       IN k * 1000 + ((hi - x) * 1000) \div (hi - lo)

\* angle * Math.PI / 180
Radians(a) == MulDiv(a, 17453, 100000)

\* Math.acos(-Math.tan(latRad) * Math.tan(declination))
HourAngle(latitude, declination) ==
  Acos(-MulDiv(Tan(latitude), Tan(declination), TrigScale))

\* 23.45 * Math.sin(2 * Math.PI * (284 + dayOfYear) / 365) * Math.PI / 180
Declination(dayOfYear) ==
  MulDiv(Sin((360000 * (284 + dayOfYear)) \div 365), 23450, TrigScale)

\* estimateSolarRadiation(latitude, dayOfYear), latitude in whole degrees.
estimateSolarRadiation(latitude, dayOfYear) ==
  LET solarConstant == 1367
      lat == latitude * 1000
      declination == Declination(dayOfYear)
      hourAngle == HourAngle(lat, declination)
  IN IF hourAngle = NaN THEN NaN
     ELSE LET sum == MulDiv(MulDiv(Radians(hourAngle), Sin(lat), TrigScale),
                            Sin(declination), TrigScale)
                     + MulDiv(MulDiv(Cos(lat), Cos(declination), TrigScale),
                              Sin(hourAngle), TrigScale)
              \* (24 * 60 / Math.PI) * solarConstant / 1000000 = 0.6266
              extraterrestrialRadiation ==
                MulDiv(sum, (24 * 60 * solarConstant * 113) \div 35500, TrigScale)
          IN (extraterrestrialRadiation * 7) \div 10

\* The latitudes -90..90 in steps of LatitudeStep degrees, every day of the year.
LatitudeStep == 10

LatitudeCount == 9

DaysInYear == 365


CallEstimateSolarRadiation ==
  Returns("estimateSolarRadiation",
          estimateSolarRadiation(fnInput.latitude, fnInput.dayOfYear))

NextSolar == CallEstimateSolarRadiation

\* ------------------------------------------------------------------ view
\* PenmanMonteithView.vue.  The geocoding facade, the weather facade and the
\* browser's geolocation are the view's environment here: each await of the
\* view is an entry of weatherFetches or lookups, answered by a later step.

\* Number of awaits that may be outstanding at once.
MaxInFlight == 2

\* Number of unit toggles in one run.
MaxToggles == 2

\* ref<ProcessedWeatherData | null>(null)
NoData == [kind |-> "null"]

\* locationLat = 0, locationLon = 0: no location set; also the coordinates of
\* a Google suggestion whose coordinates have not been fetched.
NoPlace == <<0, 0>>

\* Locations the geocoder can answer with: <<latitude, longitude>>.
Places == {<<40, -105>>, <<35, -97>>}

\* Positions the browser can report; the last lies on the equator.
Positions == Places \cup {<<0, -78>>}

\* formattedAddress of a geocoding result.
AddressOf(place) ==
  IF place = <<40, -105>> THEN "Denver, CO, USA"
  ELSE IF place = <<35, -97>> THEN "Norman, OK, USA"
  ELSE "Quito, Ecuador"

\* Entries of searchSuggestions the user can click: results of the OSM
\* provider carry coordinates, suggestions of the Google provider carry 0, 0.
Suggestions ==
  { [formattedAddress |-> AddressOf(p), place |-> p] : p \in Places }
  \cup { [formattedAddress |-> "Denver, CO, USA", place |-> NoPlace] }

\* What the user can type into the search input.
Queries == {"", "D ", "Denver"}

\* String.prototype.trim for the blanks of a query.
RECURSIVE TrimStart(_)
TrimStart(q) ==
  IF Len(q) > 0 /\ SubSeq(q, 1, 1) = " " THEN TrimStart(SubSeq(q, 2, Len(q))) ELSE q

RECURSIVE TrimEnd(_)
TrimEnd(q) ==
  IF Len(q) > 0 /\ SubSeq(q, Len(q), Len(q)) = " " THEN TrimEnd(SubSeq(q, 1, Len(q) - 1)) ELSE q

Trim(q) == TrimEnd(TrimStart(q))

\* What geocodingService.searchLocations(query, 5) can resolve with.
SuggestionLists ==
  { <<>>,
    <<[formattedAddress |-> "Denver, CO, USA", place |-> NoPlace]>>,
    <<[formattedAddress |-> "Denver, CO, USA", place |-> <<40, -105>>],
      [formattedAddress |-> "Norman, OK, USA", place |-> <<35, -97>>]>> }

\* Mutant: the catch block stores no message.
WeatherFailure_NoMessage == ""

\* error.message of the Error getProcessedWeatherData rejects with.
WeatherFailure == "Failed to get weather data: No forecast data available"

\* error.message of the Error searchLocations rejects with when the provider
\* it ends on is the OSM provider.
SearchFailure == "HTTP 503: Service Unavailable"

Remove(s, i) == SubSeq(s, 1, i - 1) \o SubSeq(s, i + 1, Len(s))

Event(action, outcome) == [action |-> action, outcome |-> outcome]

\* :disabled of the refresh button.
RefreshDisabled == loadingWeather \/ (locationLat = 0 /\ locationLon = 0)

\* :disabled of the search button.
SearchDisabled == isSearching \/ Trim(searchQuery) = ""

\* ---- the calculator form: units, displayed fields and metric base values
displayAltitude(meters, altitudeUnit) ==
  IF altitudeUnit = "ft" THEN metersToFeet(meters) ELSE meters

displayWindSpeed(ms, windSpeedUnit) ==
  IF windSpeedUnit = "mph" THEN msToMph(ms) ELSE ms

convertInputAltitude(inputValue, altitudeUnit) ==
  IF altitudeUnit = "ft" THEN feetToMeters(inputValue) ELSE inputValue

convertInputWindSpeed(inputValue, windSpeedUnit) ==
  IF windSpeedUnit = "mph" THEN mphToMs(inputValue) ELSE inputValue

\* The ProcessedWeatherData getProcessedWeatherData resolves with for a place
\* (metric values).
WeatherFor(place) ==
  IF place = <<40, -105>> THEN
    [maxTemperature |-> 24333, minTemperature |-> 11667, relativeHumidity |-> 45000,
     windSpeed |-> 3576, elevation |-> 1609344]
  ELSE
    [maxTemperature |-> 30556, minTemperature |-> 18889, relativeHumidity |-> 60000,
     windSpeed |-> 5364, elevation |-> 357000]

\* new Date().getDayOfYear() on the day of the run.
dayOfYear == 172

\* weatherService.estimateSolarRadiation(targetLat, dayOfYear) for the
\* locations a request can be started for, as a number of the form.
estimatedSolarRadiation ==
  [place \in Places |->
     LET estimated == estimateSolarRadiation(place[1], dayOfYear)
     IN IF estimated = NaN THEN NaN ELSE (estimated * Scale) \div TrigScale]

\* fetchWeatherData after weatherData.value = data: the assignments to the
\* base values and to the displayed fields.
Populate(f, data, target) ==
  [f EXCEPT !.baseMaxTemp = data.maxTemperature,
            !.baseMinTemp = data.minTemperature,
            !.baseWindSpeed = data.windSpeed,
            !.baseAltitude = data.elevation,
            !.maxTemp = displayTemperature(data.maxTemperature, f.temperatureUnit),
            !.minTemp = displayTemperature(data.minTemperature, f.temperatureUnit),
            !.relativeHumidity = data.relativeHumidity,
            !.windSpeed = displayWindSpeed(data.windSpeed, f.windSpeedUnit),
            !.altitude = displayAltitude(data.elevation, f.altitudeUnit),
            !.solarRadiation = estimatedSolarRadiation[target]]

\* The watchers, flushed after a handler that took the form from old to mid
\* and before anything else runs: first the watchers of the units, then the
\* watchers of the displayed fields, each only if its source has changed.
Flush(old, mid) ==
  LET shown ==
        [mid EXCEPT
           !.maxTemp = IF mid.temperatureUnit # old.temperatureUnit
                         THEN displayTemperature(mid.baseMaxTemp, mid.temperatureUnit) ELSE @,
           !.minTemp = IF mid.temperatureUnit # old.temperatureUnit
                         THEN displayTemperature(mid.baseMinTemp, mid.temperatureUnit) ELSE @,
           !.altitude = IF mid.altitudeUnit # old.altitudeUnit
                          THEN displayAltitude(mid.baseAltitude, mid.altitudeUnit) ELSE @,
           !.windSpeed = IF mid.windSpeedUnit # old.windSpeedUnit
                           THEN displayWindSpeed(mid.baseWindSpeed, mid.windSpeedUnit) ELSE @]
  IN [shown EXCEPT
        !.baseMaxTemp = IF shown.maxTemp # old.maxTemp
                          THEN convertInputTemperature(shown.maxTemp, shown.temperatureUnit) ELSE @,
        !.baseMinTemp = IF shown.minTemp # old.minTemp
                          THEN convertInputTemperature(shown.minTemp, shown.temperatureUnit) ELSE @,
        !.baseAltitude = IF shown.altitude # old.altitude
                           THEN convertInputAltitude(shown.altitude, shown.altitudeUnit) ELSE @,
        !.baseWindSpeed = IF shown.windSpeed # old.windSpeed
                            THEN convertInputWindSpeed(shown.windSpeed, shown.windSpeedUnit) ELSE @]

\* The computed et0, in units of 1 / (1000 * Scale): the factors 0.1 / 2,
\* 0.05, 0.02 and 0.01 are 50, 50, 20 and 10 thousandths.
et0 ==
  MathMax(<<0, 50 * (form.baseMaxTemp + form.baseMinTemp) + 50 * form.solarRadiation
               + 20 * form.baseWindSpeed - 10 * form.relativeHumidity>>)

\* Another await may be started.
Free == Len(weatherFetches) + Len(lookups) < MaxInFlight

\* fetchWeatherData up to its await, for the coordinates it reads from
\* locationLat and locationLon.  The step that calls it fixes lookups' first:
\* the request counts against MaxInFlight together with the lookups that
\* stay outstanding.
fetchWeatherData(lat, lon) ==
  IF lat = 0 \/ lon = 0 THEN
    /\ weatherError' = "Please set a location using the search field above"
    /\ UNCHANGED <<loadingWeather, weatherFetches, lastStarted>>
  ELSE
    /\ Len(weatherFetches) + Len(lookups') < MaxInFlight
    /\ loadingWeather' = TRUE
    /\ weatherError' = ""
    /\ weatherFetches' = Append(weatherFetches, <<lat, lon>>)
    /\ lastStarted' = <<lat, lon>>

\* The user clicks the refresh button.
RefreshClick ==
  /\ ~RefreshDisabled
  /\ UNCHANGED lookups
  /\ fetchWeatherData(locationLat, locationLon)
  /\ lastEvent' = Event("fetchWeatherData",
                        IF locationLat = 0 \/ locationLon = 0 THEN "refused" ELSE "started")
  /\ UNCHANGED <<locationLat, locationLon, searchQuery, isSearching, loadingLocation,
                 locationError, weatherData, hasGeolocation, suggestionVars, formVars,
                 otherThanView>>

\* Mutant: a response is shown only if its request is the latest one started.
ReceivedData_LatestOnly(i) ==
  IF weatherFetches[i] = lastStarted THEN [kind |-> "data", place |-> weatherFetches[i]]
  ELSE weatherData

\* weatherData.value = data, for the answer to the i-th outstanding request.
ReceivedData(i) == [kind |-> "data", place |-> weatherFetches[i]]

\* getProcessedWeatherData settles for the i-th outstanding request:
\* fetchWeatherData resumes after its await and runs to its end.
WeatherSettled(i, ok) ==
  /\ i \in 1..Len(weatherFetches)
  /\ weatherFetches' = Remove(weatherFetches, i)
  /\ IF ok THEN
       /\ weatherData' = ReceivedData(i)
       /\ form' = Flush(form, Populate(form, WeatherFor(weatherFetches[i]), weatherFetches[i]))
       /\ UNCHANGED weatherError
     ELSE
       /\ weatherError' = WeatherFailure
       /\ weatherData' = NoData
       /\ UNCHANGED form
  /\ loadingWeather' = FALSE
  /\ lastEvent' = Event("fetchWeatherData", IF ok THEN "done" ELSE "failed")
  /\ UNCHANGED <<locationLat, locationLon, searchQuery, isSearching, loadingLocation,
                 locationError, hasGeolocation, lookups, lastStarted, suggestionVars,
                 unitToggles, otherThanView>>

\* Mutant: the pending timer is not cleared.
handleSearchInput_NoClear(query) ==
  /\ IF Len(Trim(query)) < 2 THEN
       /\ showSuggestions' = FALSE
       /\ searchSuggestions' = <<>>
       /\ UNCHANGED <<debounceTimers, searchDebounceTimer>>
     ELSE
       /\ debounceTimers' = debounceTimers + 1
       /\ searchDebounceTimer' = "pending"
       /\ UNCHANGED <<showSuggestions, searchSuggestions>>
  /\ lastEvent' = Event("handleSearchInput", IF Len(Trim(query)) < 2 THEN "hidden" ELSE "armed")

\* Mutant: a short query leaves the suggestions as they are.
handleSearchInput_KeepsList(query) ==
  /\ LET remaining == IF searchDebounceTimer = "pending" THEN debounceTimers - 1
                      ELSE debounceTimers
     IN IF Len(Trim(query)) < 2 THEN
          /\ debounceTimers' = remaining
          /\ searchDebounceTimer' = IF searchDebounceTimer = "pending" THEN "stale"
                                    ELSE searchDebounceTimer
          /\ UNCHANGED <<showSuggestions, searchSuggestions>>
        ELSE
          /\ debounceTimers' = remaining + 1
          /\ searchDebounceTimer' = "pending"
          /\ UNCHANGED <<showSuggestions, searchSuggestions>>
  /\ lastEvent' = Event("handleSearchInput", IF Len(Trim(query)) < 2 THEN "hidden" ELSE "armed")

\* handleSearchInput, with searchQuery holding query: clearTimeout of the
\* timer the ref names (which does nothing for a timer that has fired or
\* was cleared), then either hide the suggestions or arm a new timer.
handleSearchInput(query) ==
  /\ LET remaining == IF searchDebounceTimer = "pending" THEN debounceTimers - 1
                      ELSE debounceTimers
     IN IF Len(Trim(query)) < 2 THEN
          /\ showSuggestions' = FALSE
          /\ searchSuggestions' = <<>>
          /\ debounceTimers' = remaining
          /\ searchDebounceTimer' = IF searchDebounceTimer = "pending" THEN "stale"
                                    ELSE searchDebounceTimer
        ELSE
          /\ debounceTimers' = remaining + 1
          /\ searchDebounceTimer' = "pending"
          /\ UNCHANGED <<showSuggestions, searchSuggestions>>
  /\ lastEvent' = Event("handleSearchInput", IF Len(Trim(query)) < 2 THEN "hidden" ELSE "armed")

\* The user edits the search input: v-model stores the text, then @input
\* runs handleSearchInput.
TypeQuery(q) ==
  /\ searchQuery # q
  /\ searchQuery' = q
  /\ handleSearchInput(q)
  /\ UNCHANGED <<locationLat, locationLon, isSearching, loadingLocation, loadingWeather,
                 locationError, weatherError, weatherData, hasGeolocation, weatherFetches,
                 lookups, lastStarted, formVars, otherThanView>>

\* The search input gets the focus: @focus runs handleSearchInput.
FocusInput ==
  /\ handleSearchInput(searchQuery)
  /\ UNCHANGED <<locationLat, locationLon, searchQuery, isSearching, loadingLocation,
                 loadingWeather, locationError, weatherError, weatherData, hasGeolocation,
                 weatherFetches, lookups, lastStarted, formVars, otherThanView>>

\* A 300 ms timer of handleSearchInput fires: its callback up to the await
\* of geocodingService.searchLocations(searchQuery.value.trim(), 5).
DebounceFires ==
  /\ debounceTimers > 0
  /\ Free
  /\ debounceTimers' = debounceTimers - 1
  /\ searchDebounceTimer' = IF searchDebounceTimer = "pending" THEN "stale"
                            ELSE searchDebounceTimer
  /\ lookups' = Append(lookups, [action |-> "handleSearchInput", place |-> NoPlace])
  /\ lastEvent' = Event("handleSearchInput", "searching")
  /\ UNCHANGED <<locationLat, locationLon, searchQuery, isSearching, loadingLocation,
                 loadingWeather, locationError, weatherError, weatherData, hasGeolocation,
                 weatherFetches, lastStarted, showSuggestions, searchSuggestions, formVars,
                 otherThanView>>

\* searchLocations settles for a timer callback, which runs to its end;
\* threw: the call rejected.
SuggestionsSettled(i, threw, results) ==
  /\ i \in 1..Len(lookups)
  /\ lookups[i].action = "handleSearchInput"
  /\ lookups' = Remove(lookups, i)
  /\ IF threw THEN
       /\ showSuggestions' = FALSE
       /\ UNCHANGED searchSuggestions
     ELSE
       /\ searchSuggestions' = results
       /\ showSuggestions' = (Len(results) > 0)
  /\ lastEvent' = Event("handleSearchInput", IF threw THEN "failed" ELSE "answered")
  /\ UNCHANGED <<locationLat, locationLon, searchQuery, isSearching, loadingLocation,
                 loadingWeather, locationError, weatherError, weatherData, hasGeolocation,
                 weatherFetches, lastStarted, searchDebounceTimer, debounceTimers, formVars,
                 otherThanView>>

\* The user clicks the search button: searchForLocation up to its await.
searchForLocation ==
  /\ ~SearchDisabled
  /\ Free
  /\ isSearching' = TRUE
  /\ locationError' = ""
  /\ lookups' = Append(lookups, [action |-> "searchForLocation", place |-> NoPlace])
  /\ lastEvent' = Event("searchForLocation", "started")
  /\ UNCHANGED <<locationLat, locationLon, searchQuery, loadingLocation, loadingWeather,
                 weatherError, weatherData, hasGeolocation, weatherFetches, lastStarted,
                 suggestionVars, formVars, otherThanView>>

\* What geocodingService.searchLocations(query, 1) can settle with.
SearchAnswers ==
  { [kind |-> "threw", place |-> NoPlace], [kind |-> "empty", place |-> NoPlace] }
  \cup { [kind |-> "result", place |-> p] : p \in Places \cup {NoPlace} }

\* searchLocations settles: searchForLocation resumes and runs to its end.
SearchSettled(i, answer) ==
  /\ i \in 1..Len(lookups)
  /\ lookups[i].action = "searchForLocation"
  /\ lookups' = Remove(lookups, i)
  /\ IF answer.kind = "result" THEN
       /\ locationLat' = answer.place[1]
       /\ locationLon' = answer.place[2]
       /\ showSuggestions' = FALSE
       /\ fetchWeatherData(answer.place[1], answer.place[2])
       /\ UNCHANGED locationError
     ELSE
       /\ locationError' = IF answer.kind = "empty"
                             THEN "No locations found. Try a different search term."
                             ELSE SearchFailure
       /\ UNCHANGED <<locationLat, locationLon, loadingWeather, weatherError,
                      weatherFetches, lastStarted, showSuggestions>>
  /\ isSearching' = FALSE
  /\ lastEvent' = Event("searchForLocation",
                        IF answer.kind = "result" THEN "done" ELSE "failed")
  /\ UNCHANGED <<searchQuery, loadingLocation, weatherData, hasGeolocation,
                 searchDebounceTimer, debounceTimers, searchSuggestions, formVars,
                 otherThanView>>

\* Mutant: a suggestion is taken to carry its coordinates.
NeedsCoordinates_Never(suggestion) == FALSE

\* suggestion.latitude === 0 || suggestion.longitude === 0
NeedsCoordinates(suggestion) == suggestion.place[1] = 0 \/ suggestion.place[2] = 0

\* The user clicks a suggestion: selectSuggestion up to its await, or to its
\* end when the suggestion carries coordinates.
selectSuggestion(suggestion) ==
  /\ searchQuery' = suggestion.formattedAddress
  /\ showSuggestions' = FALSE
  /\ searchSuggestions' = <<>>
  /\ IF NeedsCoordinates(suggestion) THEN
       /\ Free
       /\ isSearching' = TRUE
       /\ locationError' = ""
       /\ lookups' = Append(lookups, [action |-> "selectSuggestion", place |-> NoPlace])
       /\ lastEvent' = Event("selectSuggestion", "started")
       /\ UNCHANGED <<locationLat, locationLon, loadingWeather, weatherError,
                      weatherFetches, lastStarted>>
     ELSE
       /\ locationLat' = suggestion.place[1]
       /\ locationLon' = suggestion.place[2]
       /\ UNCHANGED lookups
       /\ fetchWeatherData(suggestion.place[1], suggestion.place[2])
       /\ lastEvent' = Event("selectSuggestion", "done")
       /\ UNCHANGED <<isSearching, locationError>>
  /\ UNCHANGED <<loadingLocation, weatherData, hasGeolocation, searchDebounceTimer,
                 debounceTimers, formVars, otherThanView>>

\* The user clicks an entry of the list of suggestions, which is rendered
\* while showSuggestions holds and the list is not empty.
SuggestionClick(k) ==
  /\ showSuggestions
  /\ k \in 1..Len(searchSuggestions)
  /\ selectSuggestion(searchSuggestions[k])

\* getCoordinatesForAddress settles, with coordinates or with null.
CoordinatesSettled(i, coords) ==
  /\ i \in 1..Len(lookups)
  /\ lookups[i].action = "selectSuggestion"
  /\ lookups' = Remove(lookups, i)
  /\ IF coords # NoPlace THEN
       /\ locationLat' = coords[1]
       /\ locationLon' = coords[2]
       /\ fetchWeatherData(coords[1], coords[2])
       /\ UNCHANGED locationError
     ELSE
       /\ locationError' = "Could not get coordinates for this location"
       /\ UNCHANGED <<locationLat, locationLon, loadingWeather, weatherError,
                      weatherFetches, lastStarted>>
  /\ isSearching' = FALSE
  /\ lastEvent' = Event("selectSuggestion", IF coords # NoPlace THEN "done" ELSE "failed")
  /\ UNCHANGED <<searchQuery, loadingLocation, weatherData, hasGeolocation, suggestionVars, formVars, otherThanView>>

\* The user clicks the current-location button, which is disabled while
\* loadingLocation holds: getCurrentLocation up to its first await.
getCurrentLocation ==
  /\ ~loadingLocation
  /\ IF ~hasGeolocation THEN
       /\ locationError' = "Geolocation is not supported by this browser"
       /\ lastEvent' = Event("getCurrentLocation", "refused")
       /\ UNCHANGED <<loadingLocation, lookups>>
     ELSE
       /\ Free
       /\ loadingLocation' = TRUE
       /\ locationError' = ""
       /\ lookups' = Append(lookups, [action |-> "getCurrentPosition", place |-> NoPlace])
       /\ lastEvent' = Event("getCurrentLocation", "started")
  /\ UNCHANGED <<locationLat, locationLon, searchQuery, isSearching, loadingWeather,
                 weatherError, weatherData, hasGeolocation, weatherFetches, lastStarted,
                 suggestionVars, formVars, otherThanView>>

\* What navigator.geolocation.getCurrentPosition can settle with.
PositionAnswers ==
  { [kind |-> "position", place |-> p] : p \in Positions }
  \cup { [kind |-> k, place |-> NoPlace] : k \in {"PERMISSION_DENIED", "TIMEOUT"} }

\* getCurrentPosition settles: with a position, the coordinates are stored
\* and reverseGeocode is awaited; with an error, the action ends.
PositionSettled(i, answer) ==
  /\ i \in 1..Len(lookups)
  /\ lookups[i].action = "getCurrentPosition"
  /\ IF answer.kind = "position" THEN
       /\ locationLat' = answer.place[1]
       /\ locationLon' = answer.place[2]
       /\ lookups' = [lookups EXCEPT ![i] = [action |-> "reverseGeocode", place |-> answer.place]]
       /\ lastEvent' = Event("getCurrentLocation", "located")
       /\ UNCHANGED <<locationError, loadingLocation>>
     ELSE
       /\ locationError' = IF answer.kind = "PERMISSION_DENIED"
                             THEN "Location access denied. Please enable location permissions."
                             ELSE "Location request timed out."
       /\ loadingLocation' = FALSE
       /\ lookups' = Remove(lookups, i)
       /\ lastEvent' = Event("getCurrentLocation", "failed")
       /\ UNCHANGED <<locationLat, locationLon>>
  /\ UNCHANGED <<searchQuery, isSearching, loadingWeather, weatherError, weatherData,
                 hasGeolocation, weatherFetches, lastStarted, suggestionVars, formVars, otherThanView>>

\* `${locationLat.value}, ${locationLon.value}`
CoordinateText(lat, lon) == ToString(lat) \o ", " \o ToString(lon)

\* reverseGeocode settles: getCurrentLocation names the location, starts
\* fetchWeatherData for the coordinates the view holds now, and ends.
ReverseSettled(i, ok) ==
  /\ i \in 1..Len(lookups)
  /\ lookups[i].action = "reverseGeocode"
  /\ lookups' = Remove(lookups, i)
  /\ searchQuery' = IF ok THEN AddressOf(lookups[i].place)
                    ELSE CoordinateText(locationLat, locationLon)
  /\ fetchWeatherData(locationLat, locationLon)
  /\ loadingLocation' = FALSE
  /\ lastEvent' = Event("getCurrentLocation", IF ok THEN "done" ELSE "unnamed")
  /\ UNCHANGED <<locationLat, locationLon, isSearching, locationError, weatherData,
                 hasGeolocation, suggestionVars, formVars, otherThanView>>

ViewInit ==
  /\ locationLat = 0
  /\ locationLon = 0
  /\ searchQuery = ""
  /\ isSearching = FALSE
  /\ loadingLocation = FALSE
  /\ loadingWeather = FALSE
  /\ locationError = ""
  /\ weatherError = ""
  /\ weatherData = NoData
  /\ hasGeolocation \in BOOLEAN
  /\ weatherFetches = <<>>
  /\ lookups = <<>>
  /\ lastStarted = NoPlace
  /\ lastEvent = Event("none", "none")
  /\ searchDebounceTimer = "null"
  /\ debounceTimers = 0
  /\ showSuggestions = FALSE
  /\ searchSuggestions = <<>>
  /\ form = [temperatureUnit |-> "F", altitudeUnit |-> "ft", windSpeedUnit |-> "mph",
             maxTemp |-> 0, minTemp |-> 0, baseMaxTemp |-> 0, baseMinTemp |-> 0,
             relativeHumidity |-> 0, windSpeed |-> 0, baseWindSpeed |-> 0,
             solarRadiation |-> 0, altitude |-> 0, baseAltitude |-> 0]
  /\ unitToggles = 0

\* A handler that only writes refs of the form, taking it from form to mid,
\* with the watchers it triggers.
FormStep(name, mid) ==
  /\ form' = Flush(form, mid)
  /\ lastEvent' = Event(name, "done")
  /\ UNCHANGED <<locationLat, locationLon, searchQuery, isSearching, loadingLocation,
                 loadingWeather, locationError, weatherError, weatherData, hasGeolocation,
                 weatherFetches, lookups, lastStarted, suggestionVars, otherThanView>>

toggleTemperatureUnit ==
  /\ unitToggles < MaxToggles
  /\ unitToggles' = unitToggles + 1
  /\ FormStep("toggleTemperatureUnit",
              [form EXCEPT !.temperatureUnit = IF @ = "C" THEN "F" ELSE "C"])

toggleAltitudeUnit ==
  /\ unitToggles < MaxToggles
  /\ unitToggles' = unitToggles + 1
  /\ FormStep("toggleAltitudeUnit", [form EXCEPT !.altitudeUnit = IF @ = "m" THEN "ft" ELSE "m"])

toggleWindSpeedUnit ==
  /\ unitToggles < MaxToggles
  /\ unitToggles' = unitToggles + 1
  /\ FormStep("toggleWindSpeedUnit",
              [form EXCEPT !.windSpeedUnit = IF @ = "m/s" THEN "mph" ELSE "m/s"])

\* The number inputs of the meteorological data section (v-model.number).
EditableFields == {"maxTemp", "minTemp", "relativeHumidity", "windSpeed", "solarRadiation"}

\* What the user types into one of them.
EditValues == {101}

\* The user edits a number input.
EditField(field, value) ==
  /\ form[field] # value
  /\ FormStep("input", [form EXCEPT ![field] = value])
  /\ UNCHANGED unitToggles

\* The calculator form: a location chosen from suggestions that carry their
\* coordinates, its weather data, the unit toggles and the number inputs.
NextForm ==
  \/ \E suggestion \in { s \in Suggestions : ~NeedsCoordinates(s) } : selectSuggestion(suggestion)
  \/ \E i \in 1..MaxInFlight, ok \in BOOLEAN : WeatherSettled(i, ok)
  \/ toggleTemperatureUnit
  \/ toggleAltitudeUnit
  \/ toggleWindSpeedUnit
  \/ \E field \in EditableFields, value \in EditValues : EditField(field, value)

\* The search box: typing, focus, the debounce timer, the suggestions and a
\* click on one of them, with what the click sets off.
NextSearch ==
  \/ \E q \in Queries : TypeQuery(q)
  \/ FocusInput
  \/ DebounceFires
  \/ \E i \in 1..MaxInFlight, threw \in BOOLEAN, results \in SuggestionLists :
       SuggestionsSettled(i, threw, results)
  \/ \E k \in 1..2 : SuggestionClick(k)
  \/ \E i \in 1..MaxInFlight, coords \in Places \cup {NoPlace} : CoordinatesSettled(i, coords)
  \/ \E i \in 1..MaxInFlight, ok \in BOOLEAN : WeatherSettled(i, ok)

NextView ==
  \/ RefreshClick
  \/ \E i \in 1..MaxInFlight, ok \in BOOLEAN : WeatherSettled(i, ok)
  \/ searchForLocation
  \/ \E i \in 1..MaxInFlight, answer \in SearchAnswers : SearchSettled(i, answer)
  \/ \E suggestion \in Suggestions : selectSuggestion(suggestion)
  \/ \E i \in 1..MaxInFlight, coords \in Places \cup {NoPlace} : CoordinatesSettled(i, coords)
  \/ getCurrentLocation
  \/ \E i \in 1..MaxInFlight, answer \in PositionAnswers : PositionSettled(i, answer)
  \/ \E i \in 1..MaxInFlight, ok \in BOOLEAN : ReverseSettled(i, ok)

\* ------------------------------------------------------- specifications
vars == <<geoVars, wVars, viewVars, fnVars>>

\* The geocoding side: facade, providers and script loading.
ViewAtRest == ViewInit /\ hasGeolocation

FnAtRest == fnApplied = <<>> /\ fnInput = <<>> /\ fnOutput = 0

Init == GeoInit /\ WInit /\ ViewAtRest /\ FnAtRest

Spec == Init /\ [][Next]_vars

\* The geocoding side under the scheduling of the browser: a timer that is set
\* fires, and the continuation of an await on a settled promise runs.  Nothing
\* is assumed of the network: the script may never call back nor fail.
Fairness ==
  /\ WF_vars(TimeoutFires)
  /\ WF_vars(ReadyTimerFires)
  /\ \A c \in Calls : WF_vars(LoadSettled(c))

SpecLoad == Init /\ [][Next]_vars /\ Fairness

\* The weather facade, with the geocoding side at rest (no key configured).
GeoAtRest ==
  /\ apiKey = ""
  /\ isLoaded = FALSE
  /\ loadingPromise = "null"
  /\ placesPresent = FALSE
  /\ scriptCount = 0
  /\ loadsStarted = 0
  /\ callbackRegistered = FALSE
  /\ scriptState = "none"
  /\ readyTimer = FALSE
  /\ timeoutTimer = FALSE
  /\ calls = [c \in Calls |-> IdleCall]

InitWeather == GeoAtRest /\ WInit /\ ViewAtRest /\ FnAtRest

SpecWeather == InitWeather /\ [][NextWeather]_vars

\* The unit conversions of the view, applied to every input.
InitUnits ==
  /\ GeoAtRest /\ WInit /\ ViewAtRest
  /\ fnApplied = <<>>
  /\ fnInput \in [x : { k * InputStep : k \in -InputCount..InputCount } \cup {100 * Scale},
                 unit : {"C", "F"}]
  /\ fnOutput = 0

SpecUnits == InitUnits /\ [][NextUnits]_vars

\* estimateSolarRadiation, applied to every latitude and day.
InitSolar ==
  /\ GeoAtRest /\ WInit /\ ViewAtRest
  /\ fnApplied = <<>>
  /\ fnInput \in [latitude : { k * LatitudeStep : k \in -LatitudeCount..LatitudeCount } \cap (-90..90),
                 dayOfYear : 1..DaysInYear]
  /\ fnOutput = 0

SpecSolar == InitSolar /\ [][NextSolar]_vars

\* The view, with both facades as its environment.
InitView == GeoAtRest /\ WInit /\ ViewInit /\ FnAtRest

SpecView == InitView /\ [][NextView]_vars

\* The search box of the view.
SpecSearch == InitView /\ [][NextSearch]_vars

\* The calculator form of the view.
SpecForm == InitView /\ [][NextForm]_vars

\* ================================================================ claims
\* C1: for searchLocations and reverseGeocode alike, when the provider tried
\* first has thrown and another provider is available, the facade has called
\* that other provider, and if it returned a result the facade call returns
\* that result instead of the primary's error.
C1_FallbackResultReturned ==
  \A c \in Calls :
    ( /\ calls[c].op \in {"search", "reverse"}
      /\ calls[c].pc = "done"
      /\ Len(calls[c].tried) >= 1
      /\ calls[c].tried[1].status = "threw"
      /\ \E p \in ProviderNames : p # calls[c].tried[1].provider /\ isAvailable(p) )
    => /\ Len(calls[c].tried) = 2
       /\ calls[c].tried[2].provider # calls[c].tried[1].provider
       /\ isAvailable(calls[c].tried[2].provider)
       /\ calls[c].tried[2].status = "ok"
            => calls[c].outcome = "result" /\ calls[c].from = calls[c].tried[2].provider

\* A search and a reverse lookup that both got their result from OpenStreetMap
\* after Google had thrown.
C1_Witness ==
  \E c1, c2 \in Calls :
    /\ calls[c1].op = "search" /\ calls[c2].op = "reverse"
    /\ \A c \in {c1, c2} :
         /\ calls[c].pc = "done"
         /\ calls[c].tried = <<[provider |-> "Google", status |-> "threw"],
                               [provider |-> "OSM", status |-> "ok"]>>
         /\ calls[c].outcome = "result" /\ calls[c].from = "OSM"

\* C2: over the lifetime of the provider and for every interleaving of its
\* callers, loadGoogleMapsApi runs at most once and at most one script element
\* is injected, also after the load has failed.
C2_ScriptInjectedAtMostOnce ==
  scriptCount <= 1 /\ loadsStarted <= 1

\* Two overlapping callers wait on the one load, which has failed; no second
\* script was injected.
C2_Witness ==
  /\ scriptCount = 1
  /\ loadingPromise = "rejected"
  /\ \E c1, c2 \in Calls : c1 # c2 /\ calls[c1].pc = "gLoad" /\ calls[c2].pc = "gLoad"

\* C3: a facade call tries first Google when a key other than 'demo' is
\* configured and OpenStreetMap otherwise; any further provider it calls has a
\* lower priority than the one before, which has thrown.
C3_PriorityOrder ==
  \A c \in Calls :
    (calls[c].op \in {"search", "reverse"} /\ Len(calls[c].tried) >= 1)
    => /\ calls[c].tried[1].provider = (IF apiKey \notin {"", "demo"} THEN "Google" ELSE "OSM")
       /\ \A i \in 2..Len(calls[c].tried) :
            /\ priority(calls[c].tried[i].provider) < priority(calls[c].tried[i-1].provider)
            /\ calls[c].tried[i-1].status = "threw"

\* With a key configured a call is waiting for OpenStreetMap after Google threw,
\* while another call is still with Google.
C3_Witness ==
  \E c1, c2 \in Calls :
    /\ apiKey = "real"
    /\ calls[c1].op \in {"search", "reverse"} /\ calls[c1].pc = "osm"
    /\ calls[c1].tried = <<[provider |-> "Google", status |-> "threw"],
                           [provider |-> "OSM", status |-> "pending"]>>
    /\ calls[c2].op \in {"search", "reverse"} /\ calls[c2].pc = "gApi"

\* C4: when every provider a facade call tried has thrown, the call rejects
\* with the error of the last one tried: the fallback's error when another
\* provider was available, the primary's own error when none was.
C4_LastErrorSurfaced ==
  \A c \in Calls :
    ( /\ calls[c].op \in {"search", "reverse"}
      /\ calls[c].pc = "done"
      /\ Len(calls[c].tried) >= 1
      /\ \A i \in 1..Len(calls[c].tried) : calls[c].tried[i].status = "threw" )
    => /\ calls[c].outcome = "error"
       /\ calls[c].from = calls[c].tried[Len(calls[c].tried)].provider
       /\ IF \E p \in ProviderNames : p # calls[c].tried[1].provider /\ isAvailable(p)
            THEN Len(calls[c].tried) = 2 /\ calls[c].from # calls[c].tried[1].provider
            ELSE Len(calls[c].tried) = 1 /\ calls[c].from = calls[c].tried[1].provider

\* A search rejected with OpenStreetMap's error after Google and then
\* OpenStreetMap threw.
C4_Witness ==
  \E c \in Calls :
    /\ calls[c].op = "search" /\ calls[c].pc = "done"
    /\ calls[c].tried = <<[provider |-> "Google", status |-> "threw"],
                          [provider |-> "OSM", status |-> "threw"]>>
    /\ calls[c].outcome = "error" /\ calls[c].from = "OSM"

\* C5: within one facade call no provider is invoked twice and at most two
\* provider calls are made.
C5_SingleFallbackHop ==
  \A c \in Calls :
    calls[c].op \in {"search", "reverse"}
    => /\ Len(calls[c].tried) <= 2
       /\ \A i, j \in 1..Len(calls[c].tried) :
            i # j => calls[c].tried[i].provider # calls[c].tried[j].provider

\* A reverse lookup that ended after its second provider call had thrown too.
C5_Witness ==
  \E c \in Calls :
    /\ calls[c].op = "reverse" /\ calls[c].pc = "done"
    /\ Len(calls[c].tried) = 2
    /\ calls[c].tried[2].status = "threw"
    /\ calls[c].outcome = "error"

\* C6: getProcessedWeatherData issues the point request, then the request for
\* the forecast URL the point answer carried, then the gridpoint request, each
\* only after the answer to the one before has arrived; an answer to the point
\* request without properties, gridId, gridX, gridY or forecast URL makes the
\* call fail with an error after that single request.
C6_SequentialRequests ==
  /\ Len(wrequests) <= 3
  /\ \A i \in 1..Len(wrequests) : wrequests[i].kind = <<"point", "forecast", "gridpoint">>[i]
  /\ Len(wrequests) >= 2 => pointResp.kind = "ok" /\ wrequests[2].url = pointResp.forecast
  /\ Len(wrequests) >= 3 => forecastResp.kind = "ok"
  /\ ( /\ pointResp.kind = "ok"
       /\ IF pointResp.hasProperties
            THEN pointResp.gridId = "" \/ pointResp.gridX = Null \/ pointResp.gridY = Null
                   \/ pointResp.forecast = ""
            ELSE TRUE )
     => wpc = "failed" /\ werror # <<>> /\ Len(wrequests) = 1

\* A call that ran to its end: three requests, the second to the URL named by
\* the point answer, issued in order.
C6_Witness ==
  /\ wpc = "done"
  /\ pointResp.kind = "ok" /\ pointResp.forecast = "forecastB"
  /\ wrequests = <<[kind |-> "point", url |-> "/points"],
                   [kind |-> "forecast", url |-> "forecastB"],
                   [kind |-> "gridpoint", url |-> "/gridpoints"]>>

\* C7: when the first two forecast periods carry Fahrenheit temperatures, the
\* maxTemperature and minTemperature returned are the maximum and the minimum
\* of those temperatures converted to Celsius.
C7_FahrenheitConverted ==
  ( /\ wpc = "done"
    /\ Len(forecastResp.periods) >= 2
    /\ \A i \in 1..2 : forecastResp.periods[i].temperatureUnit = "F" )
  => LET celsius == [i \in 1..2 |-> fahrenheitToCelsius(forecastResp.periods[i].temperature)]
     IN /\ wresult.maxTemperature = MathMax(celsius)
        /\ wresult.minTemperature = MathMin(celsius)

\* C8: the windSpeed returned is in m/s whatever the unit tag of the upstream
\* series: km/h divided by 3.6, mph multiplied by 0.44704, m/s passed through,
\* and a value in any other unit not returned as it came.  (Stated for the
\* non-zero values; what becomes of a zero value is the subject of C10.)
C8_WindSpeedInMetersPerSecond ==
  ( /\ wpc = "done"
    /\ gridResp.windSpeed.defined
    /\ Len(gridResp.windSpeed.values) > 0
    /\ gridResp.windSpeed.values[1] # Null
    /\ gridResp.windSpeed.values[1] # 0 )
  => LET value == gridResp.windSpeed.values[1]
         uom == gridResp.windSpeed.uom
     IN CASE uom = "wmoUnit:km_h-1" -> wresult.windSpeed = (value * 10) \div 36
          [] uom = "wmoUnit:mi_h-1" -> wresult.windSpeed = (value * 44704) \div 100000
          [] uom = "wmoUnit:m_s-1" -> wresult.windSpeed = value
          [] OTHER -> wresult.windSpeed # value

\* C9: relative humidity and wind speed come from the forecast periods whenever
\* these carry the value, and the gridpoint series is requested only when a
\* forecast-period value is missing.
C9_ForecastPeriodsPreferred ==
  /\ (\E i \in 1..Len(wrequests) : wrequests[i].kind = "gridpoint")
       => \/ Len(forecastResp.periods) = 0
          \/ forecastResp.periods[1].relativeHumidity = Null
          \/ forecastResp.periods[1].windSpeedMph = Null
  /\ (wpc = "done" /\ Len(forecastResp.periods) > 0)
       => /\ forecastResp.periods[1].relativeHumidity # Null
               => wresult.relativeHumidity = forecastResp.periods[1].relativeHumidity
          /\ forecastResp.periods[1].windSpeedMph # Null
               => wresult.windSpeed = (forecastResp.periods[1].windSpeedMph * 44704) \div 100000

\* C10: the defaults (relativeHumidity 50, windSpeed 2) are returned exactly
\* when upstream supplies no value; a supplied value, 0 included, is returned
\* itself (wind converted to m/s).
C10_DefaultsOnlyWhenMissing ==
  wpc = "done"
  => LET humidity == gridResp.relativeHumidity
         wind == gridResp.windSpeed
         humiditySupplied == humidity.defined /\ Len(humidity.values) > 0 /\ humidity.values[1] # Null
         windSupplied == wind.defined /\ Len(wind.values) > 0 /\ wind.values[1] # Null
     IN /\ wresult.relativeHumidity =
             (IF humiditySupplied THEN humidity.values[1] ELSE 50 * Scale)
        /\ wresult.windSpeed =
             (IF windSupplied THEN convertWindSpeedFromGrid(wind.values[1], wind.uom) ELSE 2 * Scale)

\* C11: every failure inside getProcessedWeatherData reaches the caller as an
\* Error whose message starts with "Failed to get weather data: "; when the
\* failure is an HTTP failure raised by the response interceptor, the message
\* also contains the upstream message and the upstream status code.
C11_FailuresWrapped ==
  wpc = "failed"
  => LET failed == IF gridResp # NoResponse THEN gridResp
                   ELSE IF forecastResp # NoResponse THEN forecastResp
                   ELSE pointResp
     IN /\ Len(werror) >= 2
        /\ werror[1] = "Failed to get weather data: "
        /\ (failed.kind = "httpError" /\ failed.status # "")
             => /\ \E i \in 2..Len(werror) : werror[i] = failed.message
                /\ \E i \in 2..Len(werror) : werror[i] = failed.status

\* The forecast request was answered with HTTP 404 and the call failed.
C11_Witness ==
  /\ wpc = "failed"
  /\ forecastResp.kind = "httpError" /\ forecastResp.status = "404"
  /\ werror = <<"Failed to get weather data: ", "Request failed with status code 404",
                " (Code: ", "404", ")">>

\* C12: whenever a weather request started by fetchWeatherData is in flight,
\* loadingWeather is true and the refresh button is therefore disabled,
\* whatever the interleaving of the user actions that start a fetch.
C12_LoadingWhileInFlight ==
  weatherFetches # <<>> => loadingWeather /\ RefreshDisabled

\* C13: once the request under fetchWeatherData, searchForLocation,
\* selectSuggestion or getCurrentLocation has settled with a failure, the
\* action's in-flight flag is false again, an error message is stored for
\* display, and the action can be started again.
C13_FailedActionRecovers ==
  /\ lastEvent = Event("fetchWeatherData", "failed")
       => /\ ~loadingWeather
          /\ weatherError # ""
          /\ ((locationLat # 0 \/ locationLon # 0) /\ Free) => ENABLED RefreshClick
  /\ lastEvent = Event("searchForLocation", "failed")
       => /\ ~isSearching
          /\ locationError # ""
          /\ (Trim(searchQuery) # "" /\ Free) => ENABLED searchForLocation
  /\ lastEvent = Event("selectSuggestion", "failed")
       => /\ ~isSearching
          /\ locationError # ""
          /\ Free => \A suggestion \in Suggestions : ENABLED selectSuggestion(suggestion)
  /\ lastEvent = Event("getCurrentLocation", "failed")
       => /\ ~loadingLocation
          /\ locationError # ""
          /\ Free => ENABLED getCurrentLocation

\* A weather request failed while a search was still in flight.
C13_Witness ==
  /\ lastEvent = Event("fetchWeatherData", "failed")
  /\ weatherError = WeatherFailure
  /\ ~loadingWeather
  /\ weatherData = NoData
  /\ \E i \in 1..Len(lookups) : lookups[i].action = "searchForLocation"

\* C20: when several weather requests overlap, once all of them have settled
\* the weather data shown belongs to the location of the request started most
\* recently; the response for an earlier location never overwrites it.
C20_LatestStartedShown ==
  (weatherFetches = <<>> /\ weatherData # NoData) => weatherData.place = lastStarted

\* C20, amended: every response that arrives replaces the weather data shown
\* by its own (by null when it is a failure), whatever was started after its
\* request; once all requests have settled the data shown is that of the
\* response that arrived last.
C20_LastArrivalShown ==
  [][ \A i \in 1..Len(weatherFetches) :
        (Len(weatherFetches') < Len(weatherFetches)
           /\ weatherFetches' = Remove(weatherFetches, i))
        => weatherData' \in {NoData, [kind |-> "data", place |-> weatherFetches[i]]} ]_vars

\* All requests have settled and the data shown is that of a location other
\* than the one requested last.
C20_Witness ==
  /\ weatherFetches = <<>>
  /\ lastEvent = Event("fetchWeatherData", "done")
  /\ weatherData # NoData
  /\ weatherData.place # lastStarted
  /\ lastStarted = <<locationLat, locationLon>>

\* C14: every load attempt of the Google Maps script settles: once
\* loadGoogleMapsApi has started, its promise is eventually resolved or
\* rejected, and no call that awaits it in ensureApiLoaded waits forever.
C14_LoadSettles ==
  /\ (loadingPromise = "pending") ~> (loadingPromise \in {"resolved", "rejected"})
  /\ \A c \in Calls : (calls[c].pc = "gLoad") ~> (calls[c].pc # "gLoad")

\* The script neither called back nor failed, and the 10 s timer rejected the
\* promise.
C14_Witness ==
  /\ loadingPromise = "rejected"
  /\ scriptState = "loading"
  /\ scriptCount = 1
  /\ ~timeoutTimer
  /\ ~isLoaded

\* C19: isLoaded and the load promise always agree: isLoaded is true exactly
\* when the promise is resolved, and the promise is never rejected (by the
\* 10 s timeout firing between the script's callback and its 100 ms readiness
\* check, say) while isLoaded is true.
C19_LoadedAgreesWithPromise ==
  /\ isLoaded <=> loadingPromise = "resolved"
  /\ ~(loadingPromise = "rejected" /\ isLoaded)

\* C15: the conversion pairs of the view are mutual inverses up to rounding:
\* celsiusToFahrenheit(fahrenheitToCelsius(x)), metersToFeet(feetToMeters(x))
\* and msToMph(mphToMs(x)) give x back, and so do the pairs in the other order.
C15_ConversionsInvert ==
  \A pair \in { <<"fahrenheitToCelsius", "celsiusToFahrenheit">>,
                <<"feetToMeters", "metersToFeet">>,
                <<"mphToMs", "msToMph">>,
                <<"celsiusToFahrenheit", "fahrenheitToCelsius">>,
                <<"metersToFeet", "feetToMeters">>,
                <<"msToMph", "mphToMs">> } :
    fnApplied = pair => Abs(fnOutput - fnInput.x) <= Tolerance

\* 77.7 ft was converted to metres and back.
C15_Witness ==
  /\ fnApplied = <<"feetToMeters", "metersToFeet">>
  /\ fnInput.x = 100 * InputStep
  /\ Abs(fnOutput - fnInput.x) <= Tolerance

\* C16: for either temperature unit and every value t,
\* convertInputTemperature(displayTemperature(t)) = t when the unit is the
\* same in both calls.
C16_DisplayRoundTripExact ==
  fnApplied = <<"displayTemperature", "convertInputTemperature">> => fnOutput = fnInput.x

\* C16, amended: convertInputTemperature(displayTemperature(t)) is t exactly
\* in unit C, and t up to the rounding of the two conversions in unit F.
C16_DisplayRoundTripRounded ==
  fnApplied = <<"displayTemperature", "convertInputTemperature">>
  => /\ Abs(fnOutput - fnInput.x) <= Tolerance
     /\ fnInput.unit = "C" => fnOutput = fnInput.x

\* In unit F a value came back changed by rounding.
C16_Witness ==
  /\ fnApplied = <<"displayTemperature", "convertInputTemperature">>
  /\ fnInput.unit = "F"
  /\ fnOutput # fnInput.x
  /\ Abs(fnOutput - fnInput.x) <= Tolerance

\* C17: celsiusToFahrenheit(c) = 9c/5 + 32; in particular
\* celsiusToFahrenheit(0) = 32 and celsiusToFahrenheit(100) = 212.
C17_CelsiusToFahrenheit ==
  fnApplied = <<"celsiusToFahrenheit">>
  => LET c == fnInput.x
         ninths == 5 * (fnOutput - 32 * Scale)
     IN /\ ninths <= 9 * c /\ 9 * c < ninths + 5
        /\ c = 0 => fnOutput = 32 * Scale
        /\ c = 100 * Scale => fnOutput = 212 * Scale

\* celsiusToFahrenheit(100) returned 212.
C17_Witness ==
  /\ fnApplied = <<"celsiusToFahrenheit">>
  /\ fnInput.x = 100 * Scale
  /\ fnOutput = 212 * Scale

\* C18: estimateSolarRadiation(latitude, dayOfYear) returns a finite,
\* non-negative number for every latitude in [-90, 90] and every day of the
\* year, zero or small near the poles at the winter solstice.
C18_SolarRadiationFinite ==
  fnApplied = <<"estimateSolarRadiation">>
  => /\ fnOutput # NaN
     /\ fnOutput >= 0
     /\ (fnInput.latitude >= 70 /\ fnInput.dayOfYear \in 350..360)
          => fnOutput <= TrigScale \div 20

\* C22: selectSuggestion never starts a weather request with unresolved
\* coordinates.  For a suggestion that carries the 0, 0 sentinel the click
\* only starts the coordinate lookup; the action ends "done" only with
\* resolved coordinates stored and the weather request started for exactly
\* those; when the lookup answers null it stores an error message, starts no
\* weather request and leaves locationLat and locationLon as they were.
C22_CoordinatesBeforeWeather ==
  [][ /\ lastEvent' = Event("selectSuggestion", "started")
           => /\ UNCHANGED <<locationLat, locationLon, weatherFetches>>
              /\ lookups' = Append(lookups, [action |-> "selectSuggestion", place |-> NoPlace])
      /\ lastEvent' = Event("selectSuggestion", "done")
           => /\ <<locationLat', locationLon'>> \in Places
              /\ weatherFetches' = Append(weatherFetches, <<locationLat', locationLon'>>)
      /\ lastEvent' = Event("selectSuggestion", "failed")
           => /\ locationError' # ""
              /\ UNCHANGED <<locationLat, locationLon, weatherFetches>>
    ]_vars

\* The coordinate lookup of a clicked suggestion answered null while the view
\* held a location set earlier, which it keeps.
C22_Witness ==
  /\ lastEvent = Event("selectSuggestion", "failed")
  /\ locationError = "Could not get coordinates for this location"
  /\ <<locationLat, locationLon>> \in Places
  /\ ~isSearching

\* C23: fetchWeatherData refuses (sets weatherError and issues no request)
\* only for the location latitude 0 and longitude 0 together, so that the
\* refresh button is enabled exactly where a request will be issued.
C23_OnlyOriginRefused ==
  lastEvent = Event("fetchWeatherData", "refused") => locationLat = 0 /\ locationLon = 0

\* C25: whenever no weather request is in flight, weatherError and
\* weatherData are mutually exclusive: not both an error message and data.
C25_ErrorExcludesData ==
  weatherFetches = <<>> => ~(weatherError # "" /\ weatherData # NoData)

\* C28: when reverseGeocode fails after a position fix, the step leaves
\* locationLat, locationLon and locationError as they are, sets searchQuery to
\* the coordinate pair, starts the weather request for that location and
\* ends with loadingLocation false.
C28_ReverseFailureNonFatal ==
  [][ lastEvent' = Event("getCurrentLocation", "unnamed")
        => /\ UNCHANGED <<locationLat, locationLon, locationError>>
           /\ searchQuery' = CoordinateText(locationLat, locationLon)
           /\ weatherFetches' = Append(weatherFetches, <<locationLat, locationLon>>)
           /\ ~loadingLocation'
    ]_vars

\* C26: every ProcessedWeatherData getProcessedWeatherData resolves with has
\* maxTemperature >= minTemperature, both finite, also when the forecast
\* carries one period or an empty list of periods.
C26_MaxAtLeastMin ==
  wresult # NoResult
    => /\ wresult.maxTemperature >= wresult.minTemperature
       /\ {wresult.maxTemperature, wresult.minTemperature} \cap {NegInfinity, PosInfinity} = {}

\* C29: every entry of a list GooglePlacesProvider.searchLocations resolves
\* with carries the 0, 0 sentinel together with its place id and display
\* text, and the list has at most `limit` entries; for a query of fewer than
\* 2 trimmed characters the call returns [] in the step that made it, without
\* loading the Maps script and without reaching the API request.
C29_SentinelResultsWithinLimit ==
  [][ \A c \in Calls :
        ( /\ calls'[c] # calls[c]
          /\ calls'[c].op = "search"
          /\ calls'[c].pc = "done"
          /\ calls'[c].outcome = "result"
          /\ calls'[c].from = "Google" )
        => /\ Len(calls'[c].results) <= calls'[c].limit
           /\ \A k \in 1..Len(calls'[c].results) :
                /\ calls'[c].results[k].latitude = 0
                /\ calls'[c].results[k].longitude = 0
                /\ calls'[c].results[k].formattedAddress # ""
                /\ calls'[c].results[k].placeId # ""
           /\ calls'[c].short
                => /\ calls'[c].results = <<>>
                   /\ calls[c].pc \in {"idle", "done"}
                   /\ UNCHANGED loadVars
    ]_vars

\* A Google search with limit 1 has resolved with one sentinel result.
C29_Witness ==
  \E c \in Calls :
    /\ calls[c].op = "search"
    /\ calls[c].pc = "done"
    /\ calls[c].from = "Google"
    /\ ~calls[c].short
    /\ calls[c].limit = 1
    /\ Len(calls[c].results) = 1
    /\ calls[c].results[1].latitude = 0
    /\ calls[c].results[1].longitude = 0

\* C24 as claimed: whenever the trimmed query is shorter than 2 characters,
\* the suggestions are hidden and the list is empty, also when a suggestion
\* request issued earlier answers afterwards.
C24_ShortQueryHidesSuggestions ==
  Len(Trim(searchQuery)) < 2 => ~showSuggestions /\ searchSuggestions = <<>>

\* C24, amended: handleSearchInput run for a query of fewer than 2 trimmed
\* characters leaves the suggestions hidden, the list empty and no timer
\* pending; while the query stays that short, the only step that shows
\* suggestions or fills the list again is the answer to a suggestion request
\* issued before.
C24_HiddenUntilAnswer ==
  [][ /\ lastEvent' = Event("handleSearchInput", "hidden")
           => ~showSuggestions' /\ searchSuggestions' = <<>> /\ debounceTimers' = 0
      /\ ( /\ Len(Trim(searchQuery)) < 2
           /\ Len(Trim(searchQuery')) < 2
           /\ ~showSuggestions /\ searchSuggestions = <<>>
           /\ (showSuggestions' \/ searchSuggestions' # <<>>) )
           => /\ lastEvent' = Event("handleSearchInput", "answered")
              /\ \E i \in 1..Len(lookups) : lookups[i].action = "handleSearchInput"
    ]_vars

\* The query was cut to fewer than 2 characters while a suggestion request
\* was in flight, and its answer has put the suggestions on display.
C24_Witness ==
  /\ Len(Trim(searchQuery)) < 2
  /\ lastEvent = Event("handleSearchInput", "answered")
  /\ showSuggestions
  /\ searchSuggestions # <<>>

\* C27: handleSearchInput debounces.  At most one suggestion timer is pending
\* and it is the one searchDebounceTimer names, so that the next input or
\* focus event cancels it; an event with a short query leaves none pending;
\* a suggestion search is issued only by a timer that fired, and only with a
\* trimmed query of at least 2 characters.
C27_Debounced ==
  [][ /\ debounceTimers' <= 1
      /\ debounceTimers' = 1 => searchDebounceTimer' = "pending"
      /\ lastEvent' = Event("handleSearchInput", "hidden") => debounceTimers' = 0
      /\ Len(SelectSeq(lookups', LAMBDA l : l.action = "handleSearchInput"))
           > Len(SelectSeq(lookups, LAMBDA l : l.action = "handleSearchInput"))
           => /\ debounceTimers = 1
              /\ debounceTimers' = 0
              /\ Len(Trim(searchQuery)) >= 2
              /\ lastEvent' = Event("handleSearchInput", "searching")
    ]_vars

\* A timer was re-armed by an event while the search of an earlier timer was
\* still in flight.
C27_Witness ==
  /\ lastEvent = Event("handleSearchInput", "armed")
  /\ debounceTimers = 1
  /\ \E i \in 1..Len(lookups) : lookups[i].action = "handleSearchInput"

\* C21: in every reachable state, the initial one included, each displayed
\* field is the conversion of its metric base value into the selected unit
\* (up to the rounding of the conversion): maxTemp, minTemp, altitude and
\* windSpeed against baseMaxTemp, baseMinTemp, baseAltitude and baseWindSpeed.
C21_DisplayMatchesBase ==
  /\ Abs(form.maxTemp - displayTemperature(form.baseMaxTemp, form.temperatureUnit)) <= Tolerance
  /\ Abs(form.minTemp - displayTemperature(form.baseMinTemp, form.temperatureUnit)) <= Tolerance
  /\ Abs(form.altitude - displayAltitude(form.baseAltitude, form.altitudeUnit)) <= Tolerance
  /\ Abs(form.windSpeed - displayWindSpeed(form.baseWindSpeed, form.windSpeedUnit)) <= Tolerance

\* C30: the ET0 shown is never negative, and toggling the temperature,
\* altitude or wind speed unit leaves it unchanged.
C30_TogglesKeepEt0 ==
  [][ /\ et0' >= 0
      /\ unitToggles' # unitToggles => et0' = et0
    ]_vars
====
